---- MODULE Spec2Model ----
(***************************************************************************)
(* Audio cache of yt-music-player-server: the settings file, the cache     *)
(* directory, the cache endpoints and the /api/stream pipeline             *)
(* (services/cache.py, routers/cache.py, routers/stream.py, main.py).      *)
(*                                                                         *)
(* Time is counted in whole days: the code computes                        *)
(* (time.time() - st_mtime) / 86400 and compares it with retention_days.   *)
(* A file name f"{video_id}{ext}" is the record [stem, suffix]; pathlib's  *)
(* stem/suffix of such a name are video_id and ext.                        *)
(* A JSON value of the settings file is the record [ty, v].                *)
(***************************************************************************)
EXTENDS Integers, Sequences, FiniteSets, TLC

VARIABLES now, files, settings, written, started, ret, reqs

vars == <<now, files, settings, written, started, ret, reqs>>

---------------------------------------------------------------------------
(* Bounds of the model *)

MaxTime == 2

MaxReqs == 2

---------------------------------------------------------------------------
(* JSON values *)

JInt(n) == [ty |-> "int", v |-> n]

JBool(b) == [ty |-> "bool", v |-> IF b THEN 1 ELSE 0]

JStr == [ty |-> "str", v |-> 0]

JNull == [ty |-> "null", v |-> 0]

MISSING == [ty |-> "missing", v |-> 0]

(* Python truth value of a JSON value (JStr is a non-empty string) *)
Truthy(j) ==
    CASE j.ty = "bool" -> j.v = 1
      [] j.ty = "int" -> j.v # 0
      [] j.ty = "str" -> TRUE
      [] OTHER -> FALSE

(* float <= x and float > x are defined for int and bool, TypeError otherwise *)
Numeric(j) == j.ty \in {"int", "bool"}

---------------------------------------------------------------------------
(* Settings store *)

DefaultRetentionDays == 10

DEFAULT_SETTINGS ==
    [retention_days |-> JInt(DefaultRetentionDays), enabled |-> JBool(TRUE)]

MinRetention == 1

MaxRetention == 365

SettingsAbsent == [kind |-> "absent", rd |-> MISSING, en |-> MISSING]

SettingsUnreadable == [kind |-> "unreadable", rd |-> MISSING, en |-> MISSING]

SettingsGarbage == [kind |-> "garbage", rd |-> MISSING, en |-> MISSING]

SettingsObject(rd, en) == [kind |-> "object", rd |-> rd, en |-> en]

get_cache_settings_nobackfill(f) ==
    IF f.kind = "object"
    THEN [retention_days |-> f.rd, enabled |-> f.en]
    ELSE DEFAULT_SETTINGS

(* get_cache_settings: the file absent, or open()/json.load raising, gives  *)
(* the defaults; a parsed object has its missing keys filled in.            *)
get_cache_settings(f) ==
    IF f.kind = "object"
    THEN [retention_days |->
              IF f.rd = MISSING THEN DEFAULT_SETTINGS.retention_days ELSE f.rd,
          enabled |->
              IF f.en = MISSING THEN DEFAULT_SETTINGS.enabled ELSE f.en]
    ELSE DEFAULT_SETTINGS

Min(a, b) == IF a <= b THEN a ELSE b

Max(a, b) == IF a >= b THEN a ELSE b

normalize_noclamp(partial) ==
    [retention_days |->
         JInt(Max(MinRetention,
                  IF partial.retention_days = MISSING
                  THEN DefaultRetentionDays ELSE partial.retention_days.v)),
     enabled |-> IF partial.enabled = MISSING THEN JBool(TRUE) ELSE partial.enabled]

(* save_cache_settings, "Validar y normalizar" *)
normalize(partial) ==
    [retention_days |->
         JInt(Max(MinRetention,
                  Min(MaxRetention,
                      IF partial.retention_days = MISSING
                      THEN DefaultRetentionDays ELSE partial.retention_days.v))),
     enabled |-> IF partial.enabled = MISSING THEN JBool(TRUE) ELSE partial.enabled]

---------------------------------------------------------------------------
(* Cache directory *)

Ids == {<<"a">>, <<"a", "b">>}

Payloads == {<<1>>, <<2, 2>>}

(* the (video_id, content_type) pairs that are stored: an id stored under  *)
(* two content types, and an id that has another one as a prefix           *)
StoreKeys ==
    {<<<<"a">>, "audio/mpeg">>, <<<<"a">>, "audio/webm">>,
     <<<<"a", "b">>, "audio/mpeg">>}

extensions_default_mp3(ct) ==
    CASE ct = "audio/webm" -> ".webm"
      [] ct = "audio/mp4" -> ".m4a"
      [] ct = "audio/mpeg" -> ".mp3"
      [] ct = "audio/opus" -> ".opus"
      [] ct = "audio/ogg" -> ".ogg"
      [] OTHER -> ".mp3"

(* save_to_cache: extensions.get(content_type, ".webm") *)
extensions(ct) ==
    CASE ct = "audio/webm" -> ".webm"
      [] ct = "audio/mp4" -> ".m4a"
      [] ct = "audio/mpeg" -> ".mp3"
      [] ct = "audio/opus" -> ".opus"
      [] ct = "audio/ogg" -> ".ogg"
      [] OTHER -> ".webm"

(* get_cached_file: content_types.get(ext, "audio/webm") *)
content_types(ext) ==
    CASE ext = ".webm" -> "audio/webm"
      [] ext = ".m4a" -> "audio/mp4"
      [] ext = ".mp3" -> "audio/mpeg"
      [] ext = ".opus" -> "audio/opus"
      [] ext = ".ogg" -> "audio/ogg"
      [] OTHER -> "audio/webm"

(* the content types of the table of save_to_cache, and two outside it *)
ContentTypes ==
    {"audio/webm", "audio/mp4", "audio/mpeg", "audio/opus", "audio/ogg",
     "audio/flac", ""}

Suffixes == {extensions(ct) : ct \in ContentTypes}

(* ids stored one at a time under every content type; "." is a dot in the  *)
(* id                                                                      *)
RoundTripIds == {<<"a">>, <<".", "a">>}

RoundTripKeys == RoundTripIds \X ContentTypes

(* save_to_cache: f"{video_id}{ext}", the characters of the id followed by  *)
(* the extension                                                           *)
cache_filename(id, ext) == id \o <<ext>>

(* pathlib: the suffix of a name is what begins at its last dot, unless    *)
(* that dot is the first character of the name                             *)
suffix(name) ==
    IF Len(name) > 1 /\ name[Len(name)] \in Suffixes
    THEN name[Len(name)]
    ELSE ""

(* pathlib: the stem is the name without its suffix *)
stem(name) ==
    IF suffix(name) = "" THEN name ELSE SubSeq(name, 1, Len(name) - 1)

(* a file of the cache directory, as the loops see it: file.stem and       *)
(* file.suffix of the path CACHE_DIR / cache_filename                      *)
FileName(id, ext) ==
    LET name == cache_filename(id, ext)
    IN [stem |-> stem(name), suffix |-> suffix(name)]

StoreNames == {FileName(key[1], extensions(key[2])) : key \in StoreKeys}

FileNames ==
    StoreNames
    \cup {FileName(key[1], extensions(key[2])) : key \in RoundTripKeys}

NoFile == [exists |-> FALSE, data |-> <<>>, mtime |-> 0]

File(data, t) == [exists |-> TRUE, data |-> data, mtime |-> t]

NoFiles == [f \in FileNames |-> NoFile]

Existing(fs) == {f \in FileNames : fs[f].exists}

(* str.startswith *)
startswith(s, p) == Len(p) <= Len(s) /\ SubSeq(s, 1, Len(p)) = p

(* the orders in which CACHE_DIR.iterdir() may list the directory *)
RECURSIVE Perms(_)
Perms(S) ==
    IF S = {} THEN {<<>>}
    ELSE UNION {{<<x>> \o p : p \in Perms(S \ {x})} : x \in S}

RECURSIVE SumSizes(_, _)
SumSizes(fs, S) ==
    IF S = {} THEN 0
    ELSE LET f == CHOOSE x \in S : TRUE
         IN Len(fs[f].data) + SumSizes(fs, S \ {f})

LookupResult(res, data, name, fs) ==
    [res |-> res, data |-> data, name |-> name,
     ct |-> IF res = "Hit" THEN content_types(name.suffix) ELSE "", files |-> fs]

NoName == FileName(<<>>, "")

(* get_cached_file: file.stem.startswith(video_id) *)
Matches(f, video_id) == startswith(f.stem, video_id)

(* get_cached_file: file_age_days <= retention_days *)
Fresh(age, retention_days) == age <= retention_days

(* get_cached_file: file.touch() *)
Touch(file, t) == [file EXCEPT !.mtime = t]

(* The loop of get_cached_file over the directory listing `order`.          *)
(* fio = "read_fail": stat/touch/open of a matching file raises;            *)
(* fio = "unlink_fail": unlink of an expired file raises (and is swallowed).*)
RECURSIVE scan(_, _, _, _, _, _)
scan(video_id, order, fs, pol, t, fio) ==
    IF order = <<>> THEN LookupResult("Miss", <<>>, NoName, fs)
    ELSE LET f == Head(order) IN
         IF fs[f].exists /\ Matches(f, video_id)
         THEN IF fio = "read_fail" \/ ~Numeric(pol.retention_days)
              THEN LookupResult("Raise", <<>>, NoName, fs)
              ELSE IF Fresh(t - fs[f].mtime, pol.retention_days.v)
              THEN LookupResult("Hit", fs[f].data, f,
                                [fs EXCEPT ![f] = Touch(fs[f], t)])
              ELSE scan(video_id, Tail(order),
                        IF fio = "unlink_fail" THEN fs
                        ELSE [fs EXCEPT ![f] = NoFile],
                        pol, t, fio)
         ELSE scan(video_id, Tail(order), fs, pol, t, fio)

get_cached_file_ignoring_enabled(video_id, order, fs, pol, t, fio) ==
    scan(video_id, order, fs, pol, t, fio)

get_cached_file(video_id, order, fs, pol, t, fio) ==
    IF ~Truthy(pol.enabled)
    THEN LookupResult("Miss", <<>>, NoName, fs)
    ELSE scan(video_id, order, fs, pol, t, fio)

StoreResult(res, fs) == [res |-> res, files |-> fs]

save_to_cache_ignoring_enabled(video_id, audio_data, content_type, fs, pol, t, wio, k) ==
    LET f == FileName(video_id, extensions(content_type)) IN
    IF wio = "mkdir_fail" THEN StoreResult("raise", fs)
    ELSE IF wio = "open_fail" THEN StoreResult("false", fs)
    ELSE StoreResult(IF k = Len(audio_data) THEN "true" ELSE "false",
                     [fs EXCEPT ![f] = File(SubSeq(audio_data, 1, k), t)])

(* save_to_cache.  wio = "mkdir_fail": _ensure_cache_dir raises;            *)
(* wio = "open_fail": open(cache_path, "wb") raises; wio = "write": the     *)
(* file is truncated and k bytes reach it (k < len: f.write raised).        *)
save_to_cache(video_id, audio_data, content_type, fs, pol, t, wio, k) ==
    LET f == FileName(video_id, extensions(content_type)) IN
    IF ~Truthy(pol.enabled) THEN StoreResult("false", fs)
    ELSE IF wio = "mkdir_fail" THEN StoreResult("raise", fs)
    ELSE IF wio = "open_fail" THEN StoreResult("false", fs)
    ELSE StoreResult(IF k = Len(audio_data) THEN "true" ELSE "false",
                     [fs EXCEPT ![f] = File(SubSeq(audio_data, 1, k), t)])

SweepResult(res, deleted, kept, freed, fs) ==
    [res |-> res, deleted |-> deleted, kept |-> kept, freed_bytes |-> freed,
     files |-> fs]

(* cleanup_cache: file_age_days > retention_days *)
Expired(fs, f, pol, t) == t - fs[f].mtime > pol.retention_days.v

cleanup_cache_counting_all(fs, pol, t, unlinkFail) ==
    LET all == Existing(fs) IN
    IF all # {} /\ ~Numeric(pol.retention_days)
    THEN SweepResult("raise", 0, 0, 0, fs)
    ELSE LET old == {f \in all : Expired(fs, f, pol, t)}
             gone == old \ unlinkFail
         IN SweepResult("ok", Cardinality(gone), Cardinality(all),
                        SumSizes(fs, all),
                        [f \in FileNames |-> IF f \in gone THEN NoFile ELSE fs[f]])

(* cleanup_cache; unlinkFail is the set of files whose unlink raises *)
cleanup_cache(fs, pol, t, unlinkFail) ==
    LET all == Existing(fs) IN
    IF all # {} /\ ~Numeric(pol.retention_days)
    THEN SweepResult("raise", 0, 0, 0, fs)
    ELSE LET old == {f \in all : Expired(fs, f, pol, t)}
             gone == old \ unlinkFail
         IN SweepResult("ok", Cardinality(gone), Cardinality(all \ old),
                        SumSizes(fs, gone),
                        [f \in FileNames |-> IF f \in gone THEN NoFile ELSE fs[f]])

clear_cache_counting_files(fs, unlinkFail) ==
    LET gone == Existing(fs) \ unlinkFail
    IN SweepResult("ok", Cardinality(gone), 0, Cardinality(gone),
                   [f \in FileNames |-> IF f \in gone THEN NoFile ELSE fs[f]])

(* clear_cache *)
clear_cache(fs, unlinkFail) ==
    LET gone == Existing(fs) \ unlinkFail
    IN SweepResult("ok", Cardinality(gone), 0, SumSizes(fs, gone),
                   [f \in FileNames |-> IF f \in gone THEN NoFile ELSE fs[f]])

(* get_cache_stats *)
get_cache_stats(fs) ==
    [file_count |-> Cardinality(Existing(fs)),
     total_size |-> SumSizes(fs, Existing(fs))]

---------------------------------------------------------------------------
(* The last operation and how it ended *)

NoPolicy == [retention_days |-> MISSING, enabled |-> MISSING]

(* the counters a sweep answers with *)
Counters(r) ==
    [deleted |-> r.deleted, kept |-> r.kept, freed_bytes |-> r.freed_bytes]

NoSweep == [deleted |-> 0, kept |-> 0, freed_bytes |-> 0]

NoStats == [file_count |-> 0, total_size |-> 0]

Blank ==
    [op |-> "init", res |-> "", arg |-> 0, pol |-> NoPolicy, sweep |-> NoSweep,
     stats |-> NoStats, before |-> NoPolicy]

LookupIO == {"ok", "read_fail", "unlink_fail"}

StoreIO == {"write", "open_fail", "mkdir_fail"}

SaveIO == {"ok", "open_fail", "write_fail"}

(* retention_days values posted to the settings endpoint *)
MainRetentions == {0}

AllRetentions == {-1, 0, 1, 2, 10, 364, 365, 366, 1000}

---------------------------------------------------------------------------
(* Operations *)

(* a process start that serves requests without having swept *)
StartupStep_without_sweep(unlinkFail) ==
    /\ started' = TRUE
    /\ ret' = [Blank EXCEPT !.op = "startup", !.res = "ok"]
    /\ UNCHANGED <<now, files, settings, written, reqs>>

(* main.py lifespan: the process is (re)started over the data directory    *)
(* and runs cleanup_cache() before it serves; an exception there ends the  *)
(* start-up.                                                               *)
StartupStep(unlinkFail) ==
    /\ LET r == cleanup_cache(files, get_cache_settings(settings), now, unlinkFail)
       IN /\ files' = r.files
          /\ started' = (r.res = "ok")
          /\ ret' = [Blank EXCEPT !.op = "startup", !.res = r.res,
                         !.sweep = IF r.res = "ok" THEN Counters(r) ELSE NoSweep]
    /\ UNCHANGED <<now, settings, written, reqs>>

Startup == \E unlinkFail \in SUBSET Existing(files) : StartupStep(unlinkFail)

Tick ==
    /\ now < MaxTime
    /\ now' = now + 1
    /\ ret' = [Blank EXCEPT !.op = "tick"]
    /\ UNCHANGED <<files, settings, written, started, reqs>>

(* a call of get_cached_file(video_id) *)
LookupStep(video_id, order, fio) ==
    /\ started
    /\ LET r == get_cached_file(video_id, order, files,
                                get_cache_settings(settings), now, fio)
       IN /\ files' = r.files
          /\ ret' = [Blank EXCEPT !.op = "lookup", !.res = r.res]
    /\ UNCHANGED <<now, settings, written, started, reqs>>

(* the files of the listing that do not match are skipped by the loop: the *)
(* orders of the matching ones are the listings that differ                *)
Listings(fs, video_id) == Perms({f \in Existing(fs) : Matches(f, video_id)})

Lookup(video_id) ==
    \E order \in Listings(files, video_id), fio \in LookupIO :
        LookupStep(video_id, order, fio)

(* a call of save_to_cache(video_id, audio_data, filename, content_type) *)
StoreStep(video_id, audio_data, content_type, wio, k) ==
    /\ started
    /\ LET r == save_to_cache(video_id, audio_data, content_type, files,
                              get_cache_settings(settings), now, wio, k)
       IN /\ files' = r.files
          /\ ret' = [Blank EXCEPT !.op = "store", !.res = r.res]
    /\ UNCHANGED <<now, settings, written, started, reqs>>

Store(video_id, audio_data, content_type) ==
    \E wio \in StoreIO :
        StoreStep(video_id, audio_data, content_type, wio,
                  IF wio = "write" THEN Len(audio_data) ELSE 0)

(* POST /api/cache/cleanup *)
CleanupStep(unlinkFail) ==
    /\ started
    /\ LET r == cleanup_cache(files, get_cache_settings(settings), now, unlinkFail)
       IN /\ files' = r.files
          /\ ret' = [Blank EXCEPT !.op = "cleanup",
                         !.res = IF r.res = "ok" THEN "ok" ELSE "error500",
                         !.sweep = IF r.res = "ok" THEN Counters(r) ELSE NoSweep]
    /\ UNCHANGED <<now, settings, written, started, reqs>>

run_cleanup == \E unlinkFail \in SUBSET Existing(files) : CleanupStep(unlinkFail)

(* DELETE /api/cache/clear *)
ClearStep(unlinkFail) ==
    /\ started
    /\ LET r == clear_cache(files, unlinkFail)
       IN /\ files' = r.files
          /\ ret' = [Blank EXCEPT !.op = "clear", !.res = "ok",
                         !.sweep = Counters(r)]
    /\ UNCHANGED <<now, settings, written, started, reqs>>

run_clear == \E unlinkFail \in SUBSET Existing(files) : ClearStep(unlinkFail)

(* GET /api/cache/stats *)
get_stats ==
    /\ started
    /\ ret' = [Blank EXCEPT !.op = "stats", !.res = "ok",
                   !.stats = get_cache_stats(files),
                   !.pol = get_cache_settings(settings)]
    /\ UNCHANGED <<now, files, settings, written, started, reqs>>

(* save_cache_settings: the settings file after the call.  io = "open_fail": *)
(* open(SETTINGS_FILE, "w") raises; io = "write_fail": json.dump raises      *)
(* after the file was truncated.                                             *)
save_cache_settings(partial, f, io) ==
    LET n == normalize(partial) IN
    IF io = "open_fail" THEN [res |-> "raise", pol |-> NoPolicy, file |-> f]
    ELSE IF io = "write_fail"
    THEN [res |-> "raise", pol |-> NoPolicy, file |-> SettingsGarbage]
    ELSE [res |-> "ok", pol |-> n,
          file |-> SettingsObject(n.retention_days, n.enabled)]

(* POST /api/cache/settings with a validated CacheSettingsRequest *)
update_settings(retention_days, enabled, io) ==
    /\ started
    /\ LET r == save_cache_settings(
                    [retention_days |-> JInt(retention_days),
                     enabled |-> JBool(enabled)], settings, io)
       IN /\ settings' = r.file
          /\ written' = (IF io = "open_fail" THEN written ELSE TRUE)
          /\ ret' = [Blank EXCEPT !.op = "update_settings",
                         !.arg = retention_days,
                         !.res = IF r.res = "ok" THEN "ok" ELSE "error500",
                         !.pol = r.pol]
    /\ UNCHANGED <<now, files, started, reqs>>

(* GET /api/cache/settings *)
get_settings ==
    /\ started
    /\ ret' = [Blank EXCEPT !.op = "get_settings", !.res = "ok",
                   !.pol = get_cache_settings(settings)]
    /\ UNCHANGED <<now, files, settings, written, started, reqs>>

---------------------------------------------------------------------------
(* GET /api/stream/{video_id}: routers/stream.py stream_audio *)

Reqs == 1..MaxReqs

StreamIds == {<<"a">>}

(* what download_audio_file returns: (audio_data, filename, content_type) *)
ResolverResults == {<<d, "audio/mpeg">> : d \in Payloads}

chunk_size == 65536

Idle ==
    [pc |-> "idle", id |-> <<>>, audio_data |-> <<>>, content_type |-> "",
     task |-> "none", status |-> 0, body |-> <<>>, err |-> "",
     log |-> <<>>, after |-> {}, scratch |-> {}]

NoReqs == [r \in Reqs |-> Idle]

(* log is the order in which the handler's calls happened for the request: *)
(* "lookup" get_cached_file returned or raised, "resolve" the executor was  *)
(* given download_audio_file, "resolved" it returned, "failed" it raised,   *)
(* "schedule" the executor was given save_to_cache, "chunk" audio_stream    *)
(* yielded, "store" save_to_cache ran; after is the set of requests whose   *)
(* save_to_cache had begun when this request's save_to_cache began;         *)
(* scratch is what exists of the temporary directory of a download request: *)
(* "dir" the directory of mkdtemp, "mp3" the converted file in it           *)

(* an async handler runs on the event loop only while no handler is inside  *)
(* a synchronous call: download_audio calls download_as_mp3 without handing *)
(* it to the executor, and update_settings is inside save_cache_settings    *)
(* from the open of the settings file to the end of json.dump               *)
LoopFree ==
    /\ \A o \in Reqs : reqs[o].pc # "convert"
    /\ ret.res # "writing"

BeginStep_restoring(r, video_id, order, fio) ==
    /\ started
    /\ LoopFree
    /\ reqs[r].pc = "idle"
    /\ LET c == get_cached_file(video_id, order, files,
                                get_cache_settings(settings), now, fio)
       IN /\ files' = c.files
          /\ reqs' = [reqs EXCEPT ![r] =
                CASE c.res = "Hit" ->
                       [Idle EXCEPT !.pc = "serve", !.id = video_id,
                                    !.audio_data = c.data, !.content_type = c.ct,
                                    !.task = "scheduled",
                                    !.log = <<"lookup", "schedule">>]
                  [] c.res = "Miss" ->
                       [Idle EXCEPT !.pc = "resolve", !.id = video_id,
                                    !.log = <<"lookup", "resolve">>]
                  [] OTHER ->
                       [Idle EXCEPT !.pc = "done", !.id = video_id,
                                    !.status = 500, !.err = "cache",
                                    !.log = <<"lookup">>]]
    /\ UNCHANGED <<now, settings, written, started, ret>>

(* the request arrives and calls get_cached_file on the event loop: a hit   *)
(* goes on to the response, a miss to run_in_executor(download_audio_file), *)
(* an exception to the handler's except clause (HTTP 500)                   *)
BeginStep(r, video_id, order, fio) ==
    /\ started
    /\ LoopFree
    /\ reqs[r].pc = "idle"
    /\ LET c == get_cached_file(video_id, order, files,
                                get_cache_settings(settings), now, fio)
       IN /\ files' = c.files
          /\ reqs' = [reqs EXCEPT ![r] =
                CASE c.res = "Hit" ->
                       [Idle EXCEPT !.pc = "serve", !.id = video_id,
                                    !.audio_data = c.data, !.content_type = c.ct,
                                    !.log = <<"lookup">>]
                  [] c.res = "Miss" ->
                       [Idle EXCEPT !.pc = "resolve", !.id = video_id,
                                    !.log = <<"lookup", "resolve">>]
                  [] OTHER ->
                       [Idle EXCEPT !.pc = "done", !.id = video_id,
                                    !.status = 500, !.err = "cache",
                                    !.log = <<"lookup">>]]
    /\ UNCHANGED <<now, settings, written, started, ret>>

StreamBegin(r, video_id) ==
    \E order \in Listings(files, video_id), fio \in LookupIO :
        BeginStep(r, video_id, order, fio)

(* download_audio_file returned: save_to_cache is handed to the executor    *)
(* (not awaited) and the StreamingResponse is returned                      *)
ResolveOk(r, audio_data, content_type) ==
    /\ LoopFree
    /\ reqs[r].pc = "resolve"
    /\ reqs' = [reqs EXCEPT ![r].pc = "serve", ![r].audio_data = audio_data,
                            ![r].content_type = content_type,
                            ![r].task = "scheduled",
                            ![r].log = @ \o <<"resolved", "schedule">>]
    /\ UNCHANGED <<now, files, settings, written, started, ret>>

ResolveFail_storing(r) ==
    /\ LoopFree
    /\ reqs[r].pc = "resolve"
    /\ reqs' = [reqs EXCEPT ![r].pc = "done", ![r].status = 500,
                            ![r].err = "resolver", ![r].task = "scheduled",
                            ![r].log = @ \o <<"failed">>]
    /\ UNCHANGED <<now, files, settings, written, started, ret>>

(* download_audio_file raised: except clause, HTTP 500 *)
ResolveFail(r) ==
    /\ LoopFree
    /\ reqs[r].pc = "resolve"
    /\ reqs' = [reqs EXCEPT ![r].pc = "done", ![r].status = 500,
                            ![r].err = "resolver",
                            ![r].log = @ \o <<"failed">>]
    /\ UNCHANGED <<now, files, settings, written, started, ret>>

ServeChunk_early(r) ==
    /\ LoopFree
    /\ reqs[r].pc \in {"resolve", "serve"}
    /\ LET q == reqs[r]
           sent == Len(q.body)
           upto == Min(sent + chunk_size, Len(q.audio_data))
           body == q.body \o SubSeq(q.audio_data, sent + 1, upto)
       IN reqs' = [reqs EXCEPT ![r].body = body, ![r].status = 200,
                               ![r].log = @ \o <<"chunk">>,
                               ![r].pc = IF Len(body) = Len(q.audio_data)
                                         THEN "done" ELSE "serve"]
    /\ UNCHANGED <<now, files, settings, written, started, ret>>

ServeChunk_after_store(r) ==
    /\ LoopFree
    /\ reqs[r].pc = "serve"
    /\ reqs[r].task \notin {"scheduled", "open"}
    /\ LET q == reqs[r]
           sent == Len(q.body)
           upto == Min(sent + chunk_size, Len(q.audio_data))
           body == q.body \o SubSeq(q.audio_data, sent + 1, upto)
       IN reqs' = [reqs EXCEPT ![r].body = body, ![r].status = 200,
                               ![r].log = @ \o <<"chunk">>,
                               ![r].pc = IF Len(body) = Len(q.audio_data)
                                         THEN "done" ELSE "serve"]
    /\ UNCHANGED <<now, files, settings, written, started, ret>>

(* audio_stream(): the next chunk of audio_data goes to the client *)
ServeChunk(r) ==
    /\ LoopFree
    /\ reqs[r].pc = "serve"
    /\ LET q == reqs[r]
           sent == Len(q.body)
           upto == Min(sent + chunk_size, Len(q.audio_data))
           body == q.body \o SubSeq(q.audio_data, sent + 1, upto)
       IN reqs' = [reqs EXCEPT ![r].body = body, ![r].status = 200,
                               ![r].log = @ \o <<"chunk">>,
                               ![r].pc = IF Len(body) = Len(q.audio_data)
                                         THEN "done" ELSE "serve"]
    /\ UNCHANGED <<now, files, settings, written, started, ret>>

StoreTaskStep_awaited(r, wio, k) ==
    /\ reqs[r].task = "scheduled"
    /\ LET q == reqs[r]
           s == save_to_cache(q.id, q.audio_data, q.content_type, files,
                              get_cache_settings(settings), now, wio, k)
       IN /\ files' = s.files
          /\ reqs' = [reqs EXCEPT ![r] =
                IF s.res = "raise"
                THEN [q EXCEPT !.task = s.res, !.pc = "done", !.status = 500,
                               !.err = "store", !.log = @ \o <<"store">>]
                ELSE [q EXCEPT !.task = s.res, !.log = @ \o <<"store">>]]
    /\ UNCHANGED <<now, settings, written, started, ret>>

(* the executor runs save_to_cache; its result or exception stays in the    *)
(* future nobody awaits                                                     *)
StoreTaskStep(r, wio, k) ==
    /\ reqs[r].task = "scheduled"
    /\ LET q == reqs[r]
           s == save_to_cache(q.id, q.audio_data, q.content_type, files,
                              get_cache_settings(settings), now, wio, k)
       IN /\ files' = s.files
          /\ reqs' = [reqs EXCEPT ![r].task = s.res,
                                  ![r].log = @ \o <<"store">>]
    /\ UNCHANGED <<now, settings, written, started, ret>>

StoreTask(r) ==
    \E wio \in StoreIO, k \in 0..Len(reqs[r].audio_data) :
        /\ wio # "write" => k = 0
        /\ StoreTaskStep(r, wio, k)

InitStream ==
    /\ now = 0
    /\ files = NoFiles
    /\ settings = SettingsAbsent
    /\ written = FALSE
    /\ started = TRUE
    /\ ret = Blank
    /\ reqs = NoReqs

NextStream ==
    \/ \E r \in Reqs, id \in StreamIds : StreamBegin(r, id)
    \/ \E r \in Reqs, res \in ResolverResults : ResolveOk(r, res[1], res[2])
    \/ \E r \in Reqs : ResolveFail(r)
    \/ \E r \in Reqs : ServeChunk(r)
    \/ \E r \in Reqs : StoreTask(r)

SpecStream == InitStream /\ [][NextStream]_vars

---------------------------------------------------------------------------
(* save_to_cache in the executor's threads, one file operation at a time:  *)
(* the default executor is a thread pool, so the stores of two requests    *)
(* run in parallel                                                         *)

(* f.write(audio_data) on a descriptor opened at offset 0: the bytes       *)
(* replace the head of what the file holds and leave the rest              *)
Overwrite(old, data) == data \o SubSeq(old, Len(data) + 1, Len(old))

Begun == {"open", "true", "false", "raise"}

(* settings check, _ensure_cache_dir and open(cache_path, "wb"), which     *)
(* creates the file or truncates it to length 0                            *)
StoreOpen(r, wio) ==
    /\ reqs[r].task = "scheduled"
    /\ LET q == reqs[r]
           pol == get_cache_settings(settings)
           f == FileName(q.id, extensions(q.content_type))
           res == CASE ~Truthy(pol.enabled) -> "false"
                    [] wio = "mkdir_fail" -> "raise"
                    [] wio = "open_fail" -> "false"
                    [] OTHER -> "open"
       IN /\ files' = IF res = "open"
                      THEN [files EXCEPT ![f] = File(<<>>, now)]
                      ELSE files
          /\ reqs' = [reqs EXCEPT
                ![r].task = res,
                ![r].after = {o \in Reqs \ {r} : reqs[o].task \in Begun},
                ![r].log = IF res = "open" THEN @ ELSE @ \o <<"store">>]
    /\ UNCHANGED <<now, settings, written, started, ret>>

(* f.write(audio_data) and the close of the with block: k bytes reach the  *)
(* file, all of them unless the write fails                                *)
StoreWrite(r, k) ==
    /\ reqs[r].task = "open"
    /\ LET q == reqs[r]
           f == FileName(q.id, extensions(q.content_type))
       IN /\ files' = IF files[f] = NoFile
                      THEN files
                      ELSE [files EXCEPT ![f] =
                              File(Overwrite(@.data, SubSeq(q.audio_data, 1, k)),
                                   now)]
          /\ reqs' = [reqs EXCEPT
                ![r].task = IF k = Len(q.audio_data) THEN "true" ELSE "false",
                ![r].log = @ \o <<"store">>]
    /\ UNCHANGED <<now, settings, written, started, ret>>

NextRace ==
    \/ \E r \in Reqs, id \in StreamIds : StreamBegin(r, id)
    \/ \E r \in Reqs, res \in ResolverResults : ResolveOk(r, res[1], res[2])
    \/ \E r \in Reqs : ResolveFail(r)
    \/ \E r \in Reqs : ServeChunk(r)
    \/ \E r \in Reqs, wio \in StoreIO : StoreOpen(r, wio)
    \/ \E r \in Reqs : \E k \in 0..Len(reqs[r].audio_data) : StoreWrite(r, k)

SpecRace == InitStream /\ [][NextRace]_vars

---------------------------------------------------------------------------
(* cleanup_cache and clear_cache file by file, in the order iterdir lists  *)
(* the files, while something outside the process may remove the file g:   *)
(* point = "listed": after iterdir listed it, is_file() is False;          *)
(* point = "checked": after is_file(), stat() raises FileNotFoundError;    *)
(* point = "sized": after the last stat(), unlink() raises (caught);       *)
(* point = "none": nothing is removed from outside                         *)

VanishPoints == {"none", "listed", "checked", "sized"}

Vanished(f, g, point, at) == f = g /\ point = at

Without(fs, f) == [fs EXCEPT ![f] = NoFile]

RECURSIVE cleanup_scan(_, _, _, _, _, _, _, _, _, _)
cleanup_scan(order, fs, pol, t, unlinkFail, g, point, deleted, kept, freed) ==
    IF order = <<>>
    THEN SweepResult("ok", deleted, kept, freed, fs)
    ELSE LET f == Head(order)
             rest == Tail(order)
         IN CASE Vanished(f, g, point, "listed") ->
                   cleanup_scan(rest, Without(fs, f), pol, t, unlinkFail, g,
                                point, deleted, kept, freed)
              [] Vanished(f, g, point, "checked") ->
                   SweepResult("raise", deleted, kept, freed, Without(fs, f))
              [] OTHER ->
                   IF ~Numeric(pol.retention_days)
                   THEN SweepResult("raise", deleted, kept, freed, fs)
                   ELSE IF ~Expired(fs, f, pol, t)
                   THEN cleanup_scan(rest, fs, pol, t, unlinkFail, g, point,
                                     deleted, kept + 1, freed)
                   ELSE IF Vanished(f, g, point, "sized")
                   THEN cleanup_scan(rest, Without(fs, f), pol, t, unlinkFail,
                                     g, point, deleted, kept, freed)
                   ELSE IF f \in unlinkFail
                   THEN cleanup_scan(rest, fs, pol, t, unlinkFail, g, point,
                                     deleted, kept, freed)
                   ELSE cleanup_scan(rest, Without(fs, f), pol, t, unlinkFail,
                                     g, point, deleted + 1, kept,
                                     freed + Len(fs[f].data))

RECURSIVE clear_scan(_, _, _, _, _, _, _)
clear_scan(order, fs, unlinkFail, g, point, deleted, freed) ==
    IF order = <<>>
    THEN SweepResult("ok", deleted, 0, freed, fs)
    ELSE LET f == Head(order)
             rest == Tail(order)
         IN CASE Vanished(f, g, point, "listed") ->
                   clear_scan(rest, Without(fs, f), unlinkFail, g, point,
                              deleted, freed)
              [] Vanished(f, g, point, "checked") ->
                   SweepResult("raise", deleted, 0, freed, Without(fs, f))
              [] Vanished(f, g, point, "sized") ->
                   clear_scan(rest, Without(fs, f), unlinkFail, g, point,
                              deleted, freed)
              [] OTHER ->
                   IF f \in unlinkFail
                   THEN clear_scan(rest, fs, unlinkFail, g, point, deleted, freed)
                   ELSE clear_scan(rest, Without(fs, f), unlinkFail, g, point,
                                   deleted + 1, freed + Len(fs[f].data))

(* what may go wrong with one file during a scan of the directory fs *)
Disturbances(fs) ==
    {[unlinkFail |-> {}, g |-> NoName, point |-> "none"]}
    \cup {[unlinkFail |-> {f}, g |-> NoName, point |-> "none"] : f \in Existing(fs)}
    \cup {[unlinkFail |-> {}, g |-> f, point |-> p] :
             f \in Existing(fs), p \in VanishPoints \ {"none"}}

(* POST /api/cache/cleanup over the file-by-file scan *)
ScanCleanupStep(order, d) ==
    /\ started
    /\ LET r == cleanup_scan(order, files, get_cache_settings(settings), now,
                             d.unlinkFail, d.g, d.point, 0, 0, 0)
       IN /\ files' = r.files
          /\ ret' = [Blank EXCEPT !.op = "cleanup",
                         !.res = IF r.res = "ok" THEN "ok" ELSE "error500",
                         !.sweep = IF r.res = "ok" THEN Counters(r) ELSE NoSweep]
    /\ UNCHANGED <<now, settings, written, started, reqs>>

ScanCleanup ==
    \E order \in Perms(Existing(files)), d \in Disturbances(files) :
        ScanCleanupStep(order, d)

(* DELETE /api/cache/clear over the file-by-file scan *)
ScanClearStep(order, d) ==
    /\ started
    /\ LET r == clear_scan(order, files, d.unlinkFail, d.g, d.point, 0, 0)
       IN /\ files' = r.files
          /\ ret' = [Blank EXCEPT !.op = "clear",
                         !.res = IF r.res = "ok" THEN "ok" ELSE "error500",
                         !.sweep = IF r.res = "ok" THEN Counters(r) ELSE NoSweep]
    /\ UNCHANGED <<now, settings, written, started, reqs>>

ScanClear ==
    \E order \in Perms(Existing(files)), d \in Disturbances(files) :
        ScanClearStep(order, d)

(* every directory of files stored at some time up to now *)
Directories ==
    {[f \in FileNames |-> IF f \in StoreNames THEN dir[f] ELSE NoFile] :
        dir \in [StoreNames ->
                   {NoFile} \cup {File(d, t) : d \in Payloads, t \in 0..MaxTime}]}

InitSweep ==
    /\ now = MaxTime
    /\ files \in Directories
    /\ settings \in {SettingsAbsent, SettingsObject(JInt(1), JBool(FALSE))}
    /\ written = FALSE
    /\ started = TRUE
    /\ ret = Blank
    /\ reqs = NoReqs

NextSweep ==
    \/ ScanCleanup
    \/ ScanClear

SpecSweep == InitSweep /\ [][NextSweep]_vars

---------------------------------------------------------------------------
(* GET /api/download/{video_id}: routers/stream.py download_audio and      *)
(* services/downloader.py download_as_mp3                                  *)

(* the handler calls download_as_mp3, which makes its temporary directory  *)
(* with mkdtemp and starts yt-dlp; the call is synchronous, so the event   *)
(* loop stays inside it until it returns or raises                         *)
DownloadBegin(r, video_id) ==
    /\ started
    /\ LoopFree
    /\ reqs[r].pc = "idle"
    /\ reqs' = [reqs EXCEPT ![r] =
          [Idle EXCEPT !.pc = "convert", !.id = video_id,
                       !.scratch = {"dir"}, !.log = <<"convert">>]]
    /\ UNCHANGED <<now, files, settings, written, started, ret>>

(* download_as_mp3 returned (mp3_path, filename): the cleanup is added to  *)
(* the background tasks and the FileResponse is returned                   *)
ConvertOk(r, audio_data) ==
    /\ reqs[r].pc = "convert"
    /\ reqs' = [reqs EXCEPT ![r].pc = "send", ![r].audio_data = audio_data,
                            ![r].content_type = "audio/mpeg",
                            ![r].scratch = {"dir", "mp3"},
                            ![r].log = @ \o <<"converted">>]
    /\ UNCHANGED <<now, files, settings, written, started, ret>>

(* extract_info raised, or no .mp3 was found in the directory: the         *)
(* exception leaves download_as_mp3 and becomes HTTP 500                   *)
ConvertFail(r) ==
    /\ reqs[r].pc = "convert"
    /\ reqs' = [reqs EXCEPT ![r].pc = "done", ![r].status = 500,
                            ![r].err = "convert",
                            ![r].log = @ \o <<"failed">>]
    /\ UNCHANGED <<now, files, settings, written, started, ret>>

(* the FileResponse sends the file *)
SendFile(r) ==
    /\ LoopFree
    /\ reqs[r].pc = "send"
    /\ reqs' = [reqs EXCEPT ![r].pc = "cleanup", ![r].status = 200,
                            ![r].body = reqs[r].audio_data,
                            ![r].log = @ \o <<"sent">>]
    /\ UNCHANGED <<now, files, settings, written, started, ret>>

(* the background task cleanup(): os.remove(mp3_path), then                *)
(* os.rmdir(temp_dir); an exception of either is swallowed                 *)
CleanupTask(r, io) ==
    /\ LoopFree
    /\ reqs[r].pc = "cleanup"
    /\ reqs' = [reqs EXCEPT ![r].pc = "done",
                            ![r].scratch = CASE io = "remove_fail" -> @
                                             [] io = "rmdir_fail" -> @ \ {"mp3"}
                                             [] OTHER -> {},
                            ![r].log = @ \o <<"cleanup">>]
    /\ UNCHANGED <<now, files, settings, written, started, ret>>

CleanupIO == {"ok", "remove_fail", "rmdir_fail"}

NextDownload ==
    \/ \E r \in Reqs, id \in StreamIds : StreamBegin(r, id)
    \/ \E r \in Reqs, res \in ResolverResults : ResolveOk(r, res[1], res[2])
    \/ \E r \in Reqs : ResolveFail(r)
    \/ \E r \in Reqs : ServeChunk(r)
    \/ \E r \in Reqs : StoreTask(r)
    \/ \E r \in Reqs, id \in StreamIds : DownloadBegin(r, id)
    \/ \E r \in Reqs, d \in Payloads : ConvertOk(r, d)
    \/ \E r \in Reqs : ConvertFail(r)
    \/ \E r \in Reqs : SendFile(r)
    \/ \E r \in Reqs, io \in CleanupIO : CleanupTask(r, io)

SpecDownload == InitStream /\ [][NextDownload]_vars

---------------------------------------------------------------------------
(* save_to_cache into an empty directory and get_cached_file after it, for *)
(* every content type                                                      *)

RoundTripStore(video_id, audio_data, content_type) ==
    /\ Existing(files) = {}
    /\ StoreStep(video_id, audio_data, content_type, "write", Len(audio_data))

InitRoundTrip ==
    /\ now = 0
    /\ files = NoFiles
    /\ settings \in {SettingsAbsent, SettingsObject(JInt(1), JBool(TRUE))}
    /\ written = FALSE
    /\ started = TRUE
    /\ ret = Blank
    /\ reqs = NoReqs

NextRoundTrip ==
    \/ \E key \in RoundTripKeys, d \in Payloads :
          RoundTripStore(key[1], d, key[2])
    \/ \E id \in RoundTripIds : Lookup(id)
    \/ Tick
    \/ run_clear

SpecRoundTrip == InitRoundTrip /\ [][NextRoundTrip]_vars

---------------------------------------------------------------------------
(* save_cache_settings one file operation at a time, while the executor's  *)
(* threads run save_to_cache, which loads the settings                     *)

SavedPolicies ==
    {[retention_days |-> JInt(rd), enabled |-> JBool(en)] :
        rd \in {7}, en \in BOOLEAN}

(* open(SETTINGS_FILE, "w"): the file is truncated to length 0, which      *)
(* json.load does not parse; ret.before is what a load returned before it  *)
SaveOpen(partial, io) ==
    /\ started
    /\ LoopFree
    /\ LET n == normalize(partial)
       IN IF io = "open_fail"
          THEN /\ ret' = [Blank EXCEPT !.op = "update_settings",
                              !.res = "error500"]
               /\ UNCHANGED <<settings, written>>
          ELSE /\ ret' = [Blank EXCEPT !.op = "update_settings",
                              !.res = "writing", !.pol = n,
                              !.before = get_cache_settings(settings)]
               /\ settings' = SettingsGarbage
               /\ written' = TRUE
    /\ UNCHANGED <<now, files, started, reqs>>

(* json.dump(normalized, f, indent=2) and the close of the file *)
SaveWrite(io) ==
    /\ ret.res = "writing"
    /\ IF io = "write_fail"
       THEN /\ ret' = [ret EXCEPT !.res = "error500", !.pol = NoPolicy]
            /\ UNCHANGED settings
       ELSE /\ ret' = [ret EXCEPT !.res = "ok"]
            /\ settings' = SettingsObject(ret.pol.retention_days, ret.pol.enabled)
    /\ UNCHANGED <<now, files, written, started, reqs>>

InitSave ==
    /\ now = 0
    /\ files = NoFiles
    /\ settings \in {SettingsAbsent, SettingsObject(JInt(5), JBool(FALSE))}
    /\ written = FALSE
    /\ started = TRUE
    /\ ret = Blank
    /\ reqs = NoReqs

NextSave ==
    \/ \E r \in Reqs, id \in StreamIds : StreamBegin(r, id)
    \/ \E r \in Reqs, res \in ResolverResults : ResolveOk(r, res[1], res[2])
    \/ \E r \in Reqs : ResolveFail(r)
    \/ \E r \in Reqs : ServeChunk(r)
    \/ \E r \in Reqs, wio \in StoreIO : StoreOpen(r, wio)
    \/ \E r \in Reqs : \E k \in 0..Len(reqs[r].audio_data) : StoreWrite(r, k)
    \/ \E partial \in SavedPolicies, io \in SaveIO : SaveOpen(partial, io)
    \/ \E io \in SaveIO : SaveWrite(io)

SpecSave == InitSave /\ [][NextSave]_vars

---------------------------------------------------------------------------
(* save_to_cache on a worker thread, its settings check apart from its     *)
(* open, while the event loop runs update_settings                         *)

(* get_cache_settings, the enabled test and _ensure_cache_dir *)
StoreCheck(r, wio) ==
    /\ reqs[r].task = "scheduled"
    /\ LET pol == get_cache_settings(settings)
           res == CASE ~Truthy(pol.enabled) -> "false"
                    [] wio = "mkdir_fail" -> "raise"
                    [] OTHER -> "checked"
       IN reqs' = [reqs EXCEPT
                ![r].task = res,
                ![r].log = IF res = "checked" THEN @ ELSE @ \o <<"store">>]
    /\ UNCHANGED <<now, files, settings, written, started, ret>>

(* open(cache_path, "wb"), which creates the file or truncates it *)
StoreCreate(r, wio) ==
    /\ reqs[r].task = "checked"
    /\ LET q == reqs[r]
           f == FileName(q.id, extensions(q.content_type))
       IN IF wio = "open_fail"
          THEN /\ reqs' = [reqs EXCEPT ![r].task = "false",
                                       ![r].log = @ \o <<"store">>]
               /\ UNCHANGED files
          ELSE /\ files' = [files EXCEPT ![f] = File(<<>>, now)]
               /\ reqs' = [reqs EXCEPT
                     ![r].task = "open",
                     ![r].after = {o \in Reqs \ {r} : reqs[o].task \in Begun}]
    /\ UNCHANGED <<now, settings, written, started, ret>>

NextDisable ==
    \/ \E r \in Reqs, id \in StreamIds : StreamBegin(r, id)
    \/ \E r \in Reqs, res \in ResolverResults : ResolveOk(r, res[1], res[2])
    \/ \E r \in Reqs : ResolveFail(r)
    \/ \E r \in Reqs : ServeChunk(r)
    \/ \E r \in Reqs, wio \in {"write", "mkdir_fail"} : StoreCheck(r, wio)
    \/ \E r \in Reqs, wio \in {"write", "open_fail"} : StoreCreate(r, wio)
    \/ \E r \in Reqs : \E k \in 0..Len(reqs[r].audio_data) : StoreWrite(r, k)
    \/ \E rd \in MainRetentions, en \in BOOLEAN : update_settings(rd, en, "ok")

SpecDisable == InitStream /\ [][NextDisable]_vars

---------------------------------------------------------------------------
(* The cache store and its endpoints, one call at a time *)

Init ==
    /\ now = 0
    /\ files = NoFiles
    /\ settings \in {SettingsAbsent, SettingsObject(JStr, MISSING)}
    /\ written = FALSE
    /\ started = FALSE
    /\ ret = Blank
    /\ reqs = NoReqs

Next ==
    \/ Startup
    \/ Tick
    \/ \E id \in Ids : Lookup(id)
    \/ \E key \in StoreKeys, d \in Payloads : Store(key[1], d, key[2])
    \/ run_cleanup
    \/ run_clear
    \/ get_stats
    \/ \E r \in MainRetentions, en \in BOOLEAN : update_settings(r, en, "ok")

Spec == Init /\ [][Next]_vars

---------------------------------------------------------------------------
(* The settings store alone, over every shape of the settings file *)

SettingsShapes ==
    {SettingsAbsent, SettingsUnreadable, SettingsGarbage}
    \cup {SettingsObject(rd, en) :
            rd \in {MISSING, JInt(1), JInt(1000), JStr, JNull},
            en \in {MISSING, JBool(TRUE), JBool(FALSE), JStr, JNull}}

InitSettings ==
    /\ now = 0
    /\ files = NoFiles
    /\ settings \in SettingsShapes
    /\ written = FALSE
    /\ started = TRUE
    /\ ret = Blank
    /\ reqs = NoReqs

NextSettings ==
    \/ \E r \in AllRetentions, en \in BOOLEAN, io \in SaveIO :
          update_settings(r, en, io)
    \/ get_settings

SpecSettings == InitSettings /\ [][NextSettings]_vars

---------------------------------------------------------------------------
(* The effective policy and the age of a stored file *)

Policy == get_cache_settings(settings)

CacheEnabled == Truthy(Policy.enabled)

Age(f) == now - files[f].mtime

Orders == Perms(Existing(files))

EntriesOf(fs, id) == {f \in Existing(fs) : f.stem = id}

(* C1  Hit refresh.  For every stored entry, with the cache enabled, a     *)
(* lookup of the entry's video_id made while its age is <= retention_days  *)
(* (no file operation failing) returns Hit with exactly the entry's        *)
(* payload and sets the entry's mtime to the time of the lookup.           *)
C1_HitRefresh ==
    \A f \in Existing(files), order \in Orders :
        (CacheEnabled /\ Numeric(Policy.retention_days)
            /\ Age(f) <= Policy.retention_days.v) =>
        LET r == get_cached_file(f.stem, order, files, Policy, now, "ok")
        IN /\ r.res = "Hit"
           /\ r.data = files[f].data
           /\ r.files[f].mtime = now

(* C2  Expiry.  For every stored entry whose age is > retention_days, a    *)
(* lookup of its video_id with the cache enabled (no file operation        *)
(* failing) returns Miss and the entry is gone afterwards.                 *)
C2_Expiry ==
    \A f \in Existing(files), order \in Orders :
        (CacheEnabled /\ Numeric(Policy.retention_days)
            /\ Age(f) > Policy.retention_days.v) =>
        LET r == get_cached_file(f.stem, order, files, Policy, now, "ok")
        IN /\ r.res = "Miss"
           /\ ~r.files[f].exists

(* C3  Disabled bypass.  While the effective policy is disabled, every     *)
(* lookup returns Miss and every store returns false, whatever the         *)
(* directory holds and whatever file operation would fail, and neither     *)
(* changes a stored entry.                                                 *)
C3_DisabledBypass ==
    ~CacheEnabled =>
        /\ \A id \in Ids, order \in Orders, fio \in LookupIO :
             LET r == get_cached_file(id, order, files, Policy, now, fio)
             IN r.res = "Miss" /\ r.files = files
        /\ \A key \in StoreKeys, d \in Payloads, wio \in StoreIO, k \in 0..2 :
             k <= Len(d) =>
             LET r == save_to_cache(key[1], d, key[2], files, Policy, now, wio, k)
             IN r.res = "false" /\ r.files = files
        /\ ret.op = "lookup" => ret.res = "Miss"
        /\ ret.op = "store" => ret.res = "false"

(* a lookup has missed while disabled although a file of that age would    *)
(* be a hit under the same retention                                       *)
C3_Witness ==
    /\ ~CacheEnabled
    /\ ret.op = "lookup" /\ ret.res = "Miss"
    /\ \E f \in Existing(files) : Age(f) <= Policy.retention_days.v

(* C4  While the policy is disabled no operation other than clear_cache    *)
(* deletes or modifies a stored entry.                                     *)
C4_DisabledUntouched ==
    [][(~CacheEnabled /\ ret'.op # "clear") =>
           \A f \in Existing(files) : files'[f] = files[f]]_vars

(* C5  One entry per id.  After a successful store of (id, payload) the    *)
(* directory holds at most one entry of that id, and it holds the payload  *)
(* just stored.                                                            *)
C5_OneEntryPerId ==
    [][\A key \in StoreKeys, d \in Payloads :
          (CacheEnabled /\ StoreStep(key[1], d, key[2], "write", Len(d))) =>
              /\ Cardinality(EntriesOf(files', key[1])) <= 1
              /\ \A f \in EntriesOf(files', key[1]) : files'[f].data = d]_vars

(* a settings file that does not hold what save writes *)
Malformed(f) ==
    \/ f.kind = "garbage"
    \/ f.kind = "object" /\ f.rd.ty \notin {"int", "missing"}
    \/ f.kind = "object" /\ f.en.ty \notin {"bool", "missing"}

(* C8  A malformed settings file is never surfaced.  With a settings file  *)
(* that is unparseable or whose retention_days or enabled has the wrong    *)
(* type, lookups and cleanup behave as under the default policy and the    *)
(* cleanup endpoint does not answer with an error.                         *)
C8_MalformedSettingsNotSurfaced ==
    Malformed(settings) =>
        /\ \A id \in Ids, order \in Orders :
             get_cached_file(id, order, files, Policy, now, "ok")
               = get_cached_file(id, order, files, DEFAULT_SETTINGS, now, "ok")
        /\ cleanup_cache(files, Policy, now, {})
             = cleanup_cache(files, DEFAULT_SETTINGS, now, {})
        /\ ret.op = "cleanup" => ret.res = "ok"

---------------------------------------------------------------------------
InRange(j) == j.ty = "int" /\ 1 <= j.v /\ j.v <= 365

(* C6  Settings clamp.  For every retention_days r posted, a successful    *)
(* save returns and persists retention_days = min(365, max(1, r)); once    *)
(* the settings file has been written by save, what load returns has       *)
(* retention_days in 1..365.                                               *)
C6_SettingsClamp ==
    /\ \A r \in AllRetentions, en \in BOOLEAN :
         LET s == save_cache_settings(
                      [retention_days |-> JInt(r), enabled |-> JBool(en)],
                      settings, "ok")
             want == JInt(Min(365, Max(1, r)))
         IN /\ s.res = "ok"
            /\ s.pol.retention_days = want
            /\ get_cache_settings(s.file).retention_days = want
    /\ (ret.op = "update_settings" /\ ret.res = "ok") =>
         /\ ret.pol.retention_days = JInt(Min(365, Max(1, ret.arg)))
         /\ get_cache_settings(settings) = ret.pol
    /\ written => InRange(get_cache_settings(settings).retention_days)

(* a save of 1000 over a hand-written file has persisted 365 *)
C6_Witness ==
    /\ ret.op = "update_settings" /\ ret.res = "ok" /\ ret.arg = 1000
    /\ settings.rd = JInt(365)
    /\ written

C9_CacheReadErrorIsMiss ==
    \A r \in Reqs : ~(reqs[r].pc = "done" /\ reqs[r].status = 500
                        /\ reqs[r].err = "cache")

(* C10  A cache-store failure never turns a successful fetch into an error *)
(* response.  A request whose resolver call succeeded (its store has been  *)
(* scheduled) never gets an error status, and once its response is         *)
(* complete the caller has status 200 and exactly the resolved payload,    *)
(* whether the store returned true, returned false or raised.              *)
C10_StoreFailureInvisible ==
    \A r \in Reqs :
        reqs[r].task # "none" =>
            /\ reqs[r].status # 500 /\ reqs[r].err = ""
            /\ reqs[r].audio_data \in Payloads
            /\ reqs[r].pc = "done" =>
                 reqs[r].status = 200 /\ reqs[r].body = reqs[r].audio_data

(* a response was completed with the resolved payload although the store   *)
(* of that request raised, and another one although its store returned     *)
(* false                                                                    *)
C10_Witness ==
    \E r, q \in Reqs :
        /\ reqs[r].pc = "done" /\ reqs[r].status = 200
        /\ reqs[r].task = "raise" /\ reqs[r].body = reqs[r].audio_data
        /\ reqs[q].pc = "done" /\ reqs[q].status = 200
        /\ reqs[q].task = "false" /\ reqs[q].body = reqs[q].audio_data

---------------------------------------------------------------------------
(* C11  Resolver failure creates no entry.  The step in which the resolver *)
(* call of a stream request fails ends the request with an error response, *)
(* leaves every stored entry as it was and schedules no store; no store    *)
(* ever runs for that request afterwards and it sends no body.             *)
C11_ResolverFailureNoEntry ==
    [][\A r \in Reqs :
          /\ (reqs[r].pc = "resolve" /\ reqs'[r].err = "resolver") =>
                /\ files' = files
                /\ reqs'[r].pc = "done"
                /\ reqs'[r].status = 500
                /\ reqs'[r].task = "none"
          /\ reqs[r].err = "resolver" => reqs'[r] = reqs[r]]_vars

(* a request has failed in the resolver while the other one's entry is     *)
(* stored                                                                   *)
C11_Witness ==
    \E r \in Reqs :
        /\ reqs[r].err = "resolver"
        /\ reqs[r].status = 500
        /\ Existing(files) # {}

---------------------------------------------------------------------------
(* the place of the first event e in a request's log, 0 when it is absent *)
Pos(log, e) ==
    IF \E i \in 1..Len(log) : log[i] = e
    THEN CHOOSE i \in 1..Len(log) :
             log[i] = e /\ \A j \in 1..(i - 1) : log[j] # e
    ELSE 0

Before(log, a, b) == Pos(log, a) > 0 /\ Pos(log, a) < Pos(log, b)

(* C12  Per-request ordering.  In the log of every stream request the      *)
(* lookup has returned before the resolver is invoked, the resolver was    *)
(* invoked before it returns, and in a request that invoked the resolver   *)
(* the resolver has returned successfully before the first chunk is        *)
(* yielded and before the store is scheduled; the store runs only after    *)
(* it was scheduled.                                                       *)
C12_PerRequestOrdering ==
    \A r \in Reqs :
        LET log == reqs[r].log
            has(e) == Pos(log, e) > 0
        IN /\ has("resolve") => Before(log, "lookup", "resolve")
           /\ has("resolved") => Before(log, "resolve", "resolved")
           /\ has("failed") => Before(log, "resolve", "failed")
           /\ (has("resolve") /\ has("chunk")) => Before(log, "resolved", "chunk")
           /\ has("schedule") => Before(log, "resolved", "schedule")
           /\ has("store") => Before(log, "schedule", "store")
           /\ has("chunk") => Before(log, "lookup", "chunk")

(* a request went through lookup, resolver, scheduling, serving and store *)
C12_Witness ==
    \E r \in Reqs :
        LET log == reqs[r].log
        IN /\ Pos(log, "resolved") > 0
           /\ Pos(log, "chunk") > 0
           /\ Pos(log, "store") > 0

---------------------------------------------------------------------------
(* a request whose lookup was a hit: it is being served, or was served,    *)
(* without the resolver having been invoked                                *)
ServedFromCache(q) ==
    /\ q.pc \in {"serve", "done"}
    /\ q.err = ""
    /\ Pos(q.log, "resolve") = 0

(* C13  On a cache hit the request goes directly to serving.  The step of  *)
(* a lookup that hits hands the request the payload of a stored file of    *)
(* that id; such a request never invokes the resolver, never schedules or  *)
(* runs a store, and the bytes it has sent when it is done are exactly     *)
(* that payload.                                                           *)
C13_HitServedDirectly ==
    [][\A r \in Reqs :
          /\ (reqs[r].pc = "idle" /\ ServedFromCache(reqs'[r])) =>
                /\ reqs'[r].pc = "serve"
                /\ \E f \in Existing(files) :
                      /\ Matches(f, reqs'[r].id)
                      /\ reqs'[r].audio_data = files[f].data
          /\ ServedFromCache(reqs[r]) =>
                /\ reqs'[r].audio_data = reqs[r].audio_data
                /\ ServedFromCache(reqs'[r])
          /\ ServedFromCache(reqs'[r]) =>
                /\ reqs'[r].task = "none"
                /\ reqs'[r].log \in {<<"lookup">>, <<"lookup", "chunk">>}
                /\ reqs'[r].pc = "done" =>
                      /\ reqs'[r].status = 200
                      /\ reqs'[r].body = reqs'[r].audio_data]_vars

(* a request was served in full from the cache *)
C13_Witness ==
    \E r \in Reqs :
        /\ ServedFromCache(reqs[r])
        /\ reqs[r].pc = "done"
        /\ reqs[r].body # <<>>
        /\ reqs[r].body = reqs[r].audio_data

---------------------------------------------------------------------------
(* the requests of video_id whose resolver returned, so a store was given  *)
(* to the executor                                                         *)
Storing(id) == {r \in Reqs : reqs[r].id = id /\ reqs[r].task # "none"}

(* C14  No coalescing, later store wins.  When two requests of one id both *)
(* missed, both resolved and both stores returned true, and the store of r *)
(* began after the other's began and finishes after the other's finished,  *)
(* the one entry of the id holds exactly r's payload once r's store is     *)
(* finished.                                                               *)
C14_LaterStoreWins ==
    [][\A r \in Reqs :
          LET id == reqs[r].id
              others == Storing(id) \ {r}
          IN (/\ reqs[r].task = "open"
              /\ reqs'[r].task = "true"
              /\ others # {}
              /\ \A o \in others : reqs[o].task = "true" /\ o \in reqs[r].after)
             => /\ Cardinality(EntriesOf(files', id)) = 1
                /\ \A f \in EntriesOf(files', id) :
                      files'[f].data = reqs[r].audio_data]_vars

---------------------------------------------------------------------------
(* policies as save writes them and as a hand-edited file may hold them *)
SweepPolicies ==
    {[retention_days |-> JInt(rd), enabled |-> JBool(en)] :
        rd \in {-1, 0, 1, 2, 10}, en \in BOOLEAN}

---------------------------------------------------------------------------
(* C16  Bulk operations are best-effort.  In cleanup_cache and clear_cache *)
(* with one file whose unlink fails or that is removed from outside after  *)
(* iterdir listed it, the scan is not aborted: every other file is         *)
(* processed (expired files are removed by cleanup, all files by clear),   *)
(* and deleted and freed_bytes count exactly the files the call removed.   *)
C16_BulkBestEffort ==
    \A order \in Orders, d \in Disturbances(files) :
        LET c == cleanup_scan(order, files, Policy, now, d.unlinkFail, d.g,
                              d.point, 0, 0, 0)
            x == clear_scan(order, files, d.unlinkFail, d.g, d.point, 0, 0)
            others == Existing(files) \ (d.unlinkFail \cup {d.g})
            byCall(r) == (Existing(files) \ Existing(r.files)) \ {d.g}
        IN /\ c.res = "ok"
           /\ x.res = "ok"
           /\ \A f \in others :
                 /\ Expired(files, f, Policy, now) => c.files[f] = NoFile
                 /\ ~Expired(files, f, Policy, now) => c.files[f] = files[f]
                 /\ x.files[f] = NoFile
           /\ c.deleted = Cardinality(byCall(c))
           /\ c.freed_bytes = SumSizes(files, byCall(c))
           /\ x.deleted = Cardinality(byCall(x))
           /\ x.freed_bytes = SumSizes(files, byCall(x))

---------------------------------------------------------------------------
(* C17  clear_cache.  On a directory of n files totalling b bytes, a clear *)
(* in which no unlink fails answers deleted = n and freed_bytes = b and    *)
(* leaves no file, whatever the ages of the files and the enabled flag; a  *)
(* stats request that follows it directly reports file_count = 0 and       *)
(* total_size = 0.                                                         *)
C17_ClearAll ==
    [][/\ ClearStep({}) =>
             /\ ret'.res = "ok"
             /\ ret'.sweep.deleted = Cardinality(Existing(files))
             /\ ret'.sweep.freed_bytes = SumSizes(files, Existing(files))
             /\ Existing(files') = {}
       /\ (ret.op = "clear" /\ Existing(files) = {} /\ ret'.op = "stats") =>
             /\ ret'.stats.file_count = 0
             /\ ret'.stats.total_size = 0]_vars

(* on day 2 a clear has removed two files of 3 bytes in all while the     *)
(* cache was disabled                                                      *)
C17_Witness ==
    /\ ret.op = "clear"
    /\ ret.sweep = [deleted |-> 2, kept |-> 0, freed_bytes |-> 3]
    /\ Existing(files) = {}
    /\ ~CacheEnabled
    /\ now = 2

---------------------------------------------------------------------------
(* C18  Download scratch cleanup.  Once a download request has finished,   *)
(* with the file sent or with an error, nothing is left of its temporary   *)
(* directory: neither the converted file nor the directory itself.         *)
C18_ScratchRemoved ==
    \A r \in Reqs :
        (reqs[r].pc = "done" /\ Pos(reqs[r].log, "convert") > 0) =>
            reqs[r].scratch = {}

---------------------------------------------------------------------------
(* the suffix the content type table gives, .webm outside the table *)
TableSuffix(ct) ==
    LET table == [t \in {"audio/webm", "audio/mp4", "audio/mpeg", "audio/opus",
                         "audio/ogg"} |->
                    CASE t = "audio/webm" -> ".webm"
                      [] t = "audio/mp4" -> ".m4a"
                      [] t = "audio/mpeg" -> ".mp3"
                      [] t = "audio/opus" -> ".opus"
                      [] t = "audio/ogg" -> ".ogg"]
    IN IF ct \in DOMAIN table THEN table[ct] ELSE ".webm"

(* C19  Store/lookup round trip.  With the cache enabled and an empty      *)
(* directory, a store of (id, p, ct) leaves exactly one entry, whose stem  *)
(* is id and whose suffix is the table's suffix of ct (.webm when ct is    *)
(* outside the table); a lookup of id at any later time within the         *)
(* retention window returns Hit with payload p and with content type ct    *)
(* when ct is in the table and audio/webm otherwise.                       *)
C19_RoundTrip ==
    [][\A key \in RoundTripKeys, p \in Payloads :
          LET id == key[1]
              ct == key[2]
              inTable == TableSuffix(ct) # ".webm" \/ ct = "audio/webm"
          IN (CacheEnabled /\ RoundTripStore(id, p, ct)) =>
                /\ ret'.res = "true"
                /\ Existing(files') = {[stem |-> id, suffix |-> TableSuffix(ct)]}
                /\ \A t \in now..MaxTime, order \in Perms(Existing(files')) :
                      t - now <= Policy.retention_days.v =>
                         LET c == get_cached_file(id, order, files', Policy,
                                                  t, "ok")
                         IN /\ c.res = "Hit"
                            /\ c.data = p
                            /\ c.ct = IF inTable THEN ct ELSE "audio/webm"]_vars

(* the only entry is the .opus file of the id ".a", stored on day 0 and    *)
(* hit by a lookup on day 1                                                *)
C19_Witness ==
    /\ ret.op = "lookup"
    /\ ret.res = "Hit"
    /\ now = 1
    /\ Existing(files) = {[stem |-> <<".", "a">>, suffix |-> ".opus"]}
    /\ \A f \in Existing(files) : files[f].mtime = 1

---------------------------------------------------------------------------
(* a request inside the resolver call or inside the MP3 conversion *)
Heavy(q) == q.pc \in {"resolve", "convert"}

(* C20  Heavy operations do not stall unrelated requests.  While a request *)
(* is inside its resolver call or its MP3 conversion, a stream request     *)
(* that has just arrived can run its cache lookup and a request that is    *)
(* being served can send its next chunk.                                   *)
C20_HeavyDoesNotStall ==
    \A r \in Reqs : \A o \in Reqs \ {r} :
        Heavy(reqs[r]) =>
            /\ reqs[o].pc = "idle" =>
                  \A id \in StreamIds : ENABLED StreamBegin(o, id)
            /\ reqs[o].pc = "serve" => ENABLED ServeChunk(o)

(* the resolver call of a stream request, handed to the executor, does not *)
(* stall the others: they go on unless some handler is inside a conversion *)
ResolverDoesNotStall ==
    \A r \in Reqs : \A o \in Reqs \ {r} :
        (reqs[r].pc = "resolve" /\ LoopFree) =>
            /\ reqs[o].pc = "idle" =>
                  \A id \in StreamIds : ENABLED StreamBegin(o, id)
            /\ reqs[o].pc = "serve" => ENABLED ServeChunk(o)

---------------------------------------------------------------------------
(* The event loop and the executor go on: a chunk that can be yielded, a   *)
(* file that can be sent, a background task and a store that was handed to *)
(* the executor are eventually run.  Nothing makes a call of yt-dlp        *)
(* return: ResolveOk, ResolveFail, ConvertOk and ConvertFail may never     *)
(* happen.  The executor's pool has min(32, cpu_count + 4) >= 5 threads,   *)
(* more than the requests of the model.                                    *)
Progress ==
    \A r \in Reqs :
        /\ WF_vars(ServeChunk(r))
        /\ WF_vars(StoreTask(r))
        /\ WF_vars(SendFile(r))
        /\ WF_vars(\E io \in CleanupIO : CleanupTask(r, io))

FairStream == SpecStream /\ Progress

FairDownload == SpecDownload /\ Progress

Served(r) == reqs[r].pc = "serve" ~> reqs[r].pc = "done"

(* C21  A hung resolver blocks only its own worker.  Whatever calls of     *)
(* yt-dlp never return, every request that hit the cache and every request *)
(* whose own resolver call returned is eventually served in full.          *)
C21_HungResolverIsolated == \A r \in Reqs : Served(r)

---------------------------------------------------------------------------
(* C22  Fire-and-forget persistence.  After a successful resolve the       *)
(* response never waits for save_to_cache: whatever the state of the store *)
(* of a request (handed to the executor and not begun, file opened and not *)
(* yet written, finished or failed), its next chunk can be sent.           *)
C22_ResponseNeverWaitsForStore ==
    \A r \in Reqs :
        (reqs[r].pc = "serve" /\ reqs[r].task # "none") =>
            ENABLED ServeChunk(r)

(* one response was sent in full while its store had not begun, another    *)
(* one while its store had opened the file and not yet written it          *)
C22_Witness ==
    \E r \in Reqs : \E o \in Reqs \ {r} :
        /\ reqs[r].pc = "done" /\ reqs[r].body = reqs[r].audio_data
        /\ reqs[r].status = 200 /\ reqs[r].task = "scheduled"
        /\ reqs[o].pc = "done" /\ reqs[o].body = reqs[o].audio_data
        /\ reqs[o].status = 200 /\ reqs[o].task = "open"

---------------------------------------------------------------------------
(* A caller that goes away while its response is being streamed *)

Disconnect_cancelling(r) ==
    /\ LoopFree
    /\ reqs[r].pc = "serve"
    /\ reqs' = [reqs EXCEPT ![r].pc = "aborted", ![r].task = "none",
                            ![r].log = @ \o <<"disconnect">>]
    /\ UNCHANGED <<now, files, settings, written, started, ret>>

(* the connection is closed between two chunks: the server stops iterating *)
(* audio_stream(); what was handed to the executor is not touched          *)
Disconnect(r) ==
    /\ LoopFree
    /\ reqs[r].pc = "serve"
    /\ reqs' = [reqs EXCEPT ![r].pc = "aborted",
                            ![r].log = @ \o <<"disconnect">>]
    /\ UNCHANGED <<now, files, settings, written, started, ret>>

(* the resolver returns payloads of more than one chunk, so that a client  *)
(* can leave between two chunks                                            *)
NextCancel ==
    \/ \E r \in Reqs, id \in StreamIds : StreamBegin(r, id)
    \/ \E r \in Reqs, res \in ResolverResults :
          Len(res[1]) > 1 /\ ResolveOk(r, res[1], res[2])
    \/ \E r \in Reqs : ResolveFail(r)
    \/ \E r \in Reqs : ServeChunk(r)
    \/ \E r \in Reqs : StoreTask(r)
    \/ \E r \in Reqs : Disconnect(r)

SpecCancel == InitStream /\ [][NextCancel]_vars

(* the executor runs every task handed to it, whatever becomes of the      *)
(* request that scheduled it                                               *)
StoreProgress == \A r \in Reqs : WF_vars(StoreTask(r))

FairCancel == SpecCancel /\ StoreProgress

(* C23  Scheduled persistence completes.  A store that was handed to the   *)
(* executor is eventually run to its end, also when the caller went away   *)
(* during the response; when it returned true an entry of the id exists.   *)
C23_ScheduledStoreCompletes ==
    \A r \in Reqs :
        reqs[r].task = "scheduled" ~>
            /\ reqs[r].task \in {"true", "false", "raise"}
            /\ reqs[r].task = "true" => EntriesOf(files, reqs[r].id) # {}

(* the caller went away before the store ran, and the store has written    *)
(* the entry in full                                                       *)
C23_Witness ==
    \E r \in Reqs :
        /\ reqs[r].pc = "aborted"
        /\ reqs[r].task = "true"
        /\ Before(reqs[r].log, "disconnect", "store")
        /\ \E f \in EntriesOf(files, reqs[r].id) :
              files[f].data = reqs[r].audio_data

---------------------------------------------------------------------------
(* C24  Atomic settings rewrite.  A load made by a store on a worker       *)
(* thread while save_cache_settings is between opening the settings file   *)
(* and the end of its write returns the policy that was in force before    *)
(* the save or the normalized policy being saved, never a third value.     *)
C24_AtomicSettingsRewrite ==
    [][\A r \in Reqs :
          (/\ ret.res = "writing"
           /\ reqs[r].task = "scheduled"
           /\ reqs'[r].task # "scheduled")
          => get_cache_settings(settings) \in {ret.before, ret.pol}]_vars

---------------------------------------------------------------------------
(* C25  Startup sweep.  The process handles no request before the sweep of *)
(* its startup has returned: until then only that sweep changes the cache  *)
(* directory, and when it returns with no unlink having failed no entry    *)
(* whose age exceeds retention_days is left in the directory.              *)
C25_StartupSweep ==
    [][/\ ret'.op \notin {"startup", "tick"} => started
       /\ (~started /\ ret'.op # "startup") => files' = files
       /\ (ret'.op = "startup" /\ StartupStep({}) /\ started') =>
             /\ \A f \in Existing(files') : ~Expired(files', f, Policy, now)
             /\ \A f \in Existing(files) :
                   ~Expired(files, f, Policy, now) => files'[f] = files[f]]_vars

(* a process start whose sweep has deleted an expired entry and kept none  *)
C25_Witness ==
    /\ ret.op = "startup" /\ ret.res = "ok"
    /\ started
    /\ ret.sweep.deleted > 0
    /\ Existing(files) = {}

---------------------------------------------------------------------------
(* C26  Key isolation of results.  For every video_id A, a lookup of A     *)
(* that returns Hit returns the payload of a file stored under A, not one  *)
(* stored under another id (A a proper prefix of it included); with no     *)
(* file stored under A the lookup returns Miss.                            *)
C26_KeyIsolation ==
    \A id \in Ids, order \in Orders :
        LET r == get_cached_file(id, order, files, Policy, now, "ok")
        IN (CacheEnabled /\ Numeric(Policy.retention_days)) =>
              /\ r.res = "Hit" => r.name.stem = id
              /\ EntriesOf(files, id) = {} => r.res = "Miss"

---------------------------------------------------------------------------
(* C27  Lookup frame.  A lookup of video_id A leaves every file stored     *)
(* under another id as it was: it still exists, with the same payload and  *)
(* the same mtime, also when A is a prefix of the other id and the file    *)
(* has expired.                                                            *)
C27_LookupFrame ==
    \A id \in Ids, order \in Orders, fio \in LookupIO :
        LET r == get_cached_file(id, order, files, Policy, now, fio)
        IN \A f \in Existing(files) : f.stem # id => r.files[f] = files[f]

---------------------------------------------------------------------------
(* C28  No torn reads.  However a background store on a worker thread is   *)
(* interleaved with lookups of the same video_id, a lookup that returns    *)
(* Hit returns the whole payload of some store, never an empty or partly   *)
(* written one.                                                            *)
C28_NoTornReads ==
    \A r \in Reqs :
        ServedFromCache(reqs[r]) => reqs[r].audio_data \in Payloads

---------------------------------------------------------------------------
(* what cleanup_cache and a lookup of f's id whose listing comes to f first *)
(* do to the entry f under the policy pol                                   *)
ExpiryAgree(pol, f) ==
    LET c == cleanup_cache(files, pol, now, {}) IN
    \A order \in Orders :
        Head(order) = f =>
        LET l == get_cached_file(f.stem, order, files, pol, now, "ok")
        IN /\ ~c.files[f].exists <=> ~l.files[f].exists
           /\ Age(f) = pol.retention_days.v =>
                 /\ l.res = "Hit" /\ l.data = files[f].data
                 /\ c.files[f] = files[f]
                 /\ c.kept = Cardinality({g \in Existing(files) :
                                Age(g) <= pol.retention_days.v})

(* under every enabled policy the two agree entry by entry *)
ExpiryAgreeWhenEnabled ==
    \A pol \in SweepPolicies, f \in Existing(files) :
        Truthy(pol.enabled) => ExpiryAgree(pol, f)

(* C29  Lookup and sweeper agree on expiry.  For every entry f and every   *)
(* policy, cleanup_cache deletes f exactly when a lookup of f's id at the  *)
(* same instant deletes it as expired; an entry whose age equals           *)
(* retention_days is returned as a Hit by the lookup and is kept and       *)
(* counted as kept by the cleanup.                                         *)
C29_LookupSweeperAgree ==
    \A pol \in SweepPolicies, f \in Existing(files) : ExpiryAgree(pol, f)

---------------------------------------------------------------------------
(* C30  Disabling is effective for in-flight persistence.  From the moment *)
(* a settings update that sets enabled = false has completed and for as    *)
(* long as the cache stays disabled, no file comes into existence in the   *)
(* cache directory, whatever stores were scheduled or had started before.  *)
C30_DisableStopsInFlightStores ==
    [][(written /\ ~CacheEnabled /\ ~CacheEnabled') =>
           Existing(files') \subseteq Existing(files)]_vars

====
